---- MODULE Spec2Model ----
(***************************************************************************)
(* Position lifecycle engine of BinanceFutureBot: the PositionMonitor of   *)
(* background_scheduler.py (five periodic jobs on a three-worker pool),    *)
(* Try1Strategy.execute_recovery of trading_strategy.py and the exchange   *)
(* wrapper of okx_client.py, together with the position store and the      *)
(* exchange they act on.                                                   *)
(*                                                                         *)
(* Conventions.  Python None / SQL NULL is the empty sequence Null and a   *)
(* present value v is <<v>>.  Time is counted in quanta, TicksPerMinute of *)
(* them to the minute.  Quantities are hundredths of a contract.  A job    *)
(* is cut into consecutive actions at its time.sleep() calls and between   *)
(* the store session that collects its work and the exchange calls that    *)
(* act on it, so that the other jobs and the exchange interleave there;    *)
(* check_positions and check_and_restore_tp_sl_orders, which neither sleep *)
(* nor carry what they read across a session, are one action per tick.  A  *)
(* job that loads a row keeps the loaded object until its session commits  *)
(* or rolls back; the commit writes the columns whose assigned value       *)
(* differs from the loaded one (the unit of work of the ORM session), see  *)
(* Flush.                                                                  *)
(***************************************************************************)
EXTENDS Integers, Sequences, FiniteSets, TLC

\* ---------------------------------------------------------------- bounds
NumPos == 1
MaxTime == 1
MaxDelay == 1
TicksPerMinute == 1
MaxOrders == 4
MaxEnv == 2
MaxOpsEnv == 1
MaxLiveEnv == 1
MaxSettingsEnv == 1
MaxPrice == 1
MaxAmt == 300

\* ------------------------------------------------------ program constants
MAX_WORKERS == 3

Null == <<>>
Some(v) == <<v>>
Val(o) == o[1]

PosIds == 1..NumPos
Pairs == IF NumPos = 1 THEN {"long"} ELSE {"long", "short"}
Prices == {4 * k : k \in 1..MaxPrice}
PnlLevels == {-2, -1, 0, 1}
Jobs == {"position_checker", "order_canceller", "tp_sl_restorer",
         "position_reopener", "recovery_checker"}

\* Static trade parameters of every row (database.py Position columns that no
\* scheduler job writes).
AmountUsdt == 4
Leverage == 20
ContractValue == 1
LotSize == 1
OriginalTpUsdt == 1
OriginalSlUsdt == 2

\* The arguments the calculator is called with, when checked on its own.
CalcMaxUsdt == 4
CalcMaxLeverage == 2
CalcMaxPrice == 4
CalcMaxContractValue == 2
CalcMaxLotExp == 2
CalcMaxQuantity == 100

\* _load_recovery_settings: the ladders the settings table can hold.  The
\* first is the built-in default used when no step is configured.
Step(t, a, tp, sl) == [trigger_pnl |-> t, add_amount |-> a, tp_usdt |-> tp, sl_usdt |-> sl]
StepConfigs == { <<Step(-1, 4, 2, 3), Step(-2, 4, 3, 4)>> }
steps0 == CHOOSE ladder \in StepConfigs : TRUE

VARIABLES
  now,          \* datetime.now(timezone.utc), in quanta
  configured,   \* strategy.client.is_configured()
  delay,        \* self.auto_reopen_delay_minutes
  steps,        \* recovery ladder held by the settings table
  db,           \* positions table: id -> row
  queue,        \* self.closed_positions_for_reopen: id -> Null | <<closed time>>
  inRecovery,   \* self.positions_in_recovery
  exch,         \* exchange positions: pair -> [amt, entry, upl]
  orders,       \* live conditional orders on the exchange
  nextOrd,      \* next algoId the exchange hands out
  pc,           \* job -> position of its running instance ("idle" when none)
  orphanIds,    \* cancel_orphaned_orders: active_tp_sl_ids
  toReopen,     \* reopen_closed_positions: positions_to_reopen still to process,
                \* entries [id, pos]: pos the loaded row object, Null once expired
  toRemove,     \* reopen_closed_positions: positions_to_remove
  toRecover,    \* check_recovery: positions_to_recover still to process
  recPos,       \* execute_recovery: pos, the row object it loaded (Null outside)
  lastFired,    \* history: the recovery step that last succeeded, [id, step_num,
                \* streak], streak counting the steps that succeeded in a row;
                \* Null once the exchange position has changed by anything but
                \* a recovery step since
  logged,       \* the outcome the last step logged: Null, or the end of a
                \* reopen attempt or of a recovery step
  envLeft,      \* exchange-side events and gateway or store failures still
                \* allowed (bound of the model)
  monitor,      \* the module-level monitor: "none" (None), "running" or
                \* "stopped" (constructed, scheduler not running)
  manually_stopped, \* the module-level flag of that name
  started,      \* history: start_monitor has been called since process boot
                \* and since the last stop_monitor that returned True
  calc,         \* a call of a TradingCalculator function: its arguments and,
                \* once it has returned, its result; Null while none is made
  unrecorded,   \* history: ids whose reopen market order the exchange has
                \* filled and whose row no commit has updated since
  replaced      \* the cleanup runs of replaced monitors still executing on
                \* their thread pools, each with its active_tp_sl_ids

vars == <<now, configured, delay, steps, db, queue, inRecovery, exch, orders,
          nextOrd, pc, orphanIds, toReopen, toRemove, toRecover, recPos,
          lastFired, logged, envLeft, monitor, manually_stopped, started, calc,
          unrecorded, replaced>>

\* ----------------------------------------------------------------- helpers
\* position_side = pos.position_side if pos.position_side else
\*                 ("long" if pos.side == "LONG" else "short")
PositionSide(row) == IF row.side = "LONG" THEN "long" ELSE "short"

Range(s) == {s[i] : i \in DOMAIN s}

\* Python round(x, 2) of num/den, in hundredths (ties to even).
Round2(num, den) ==
  LET q == (100 * num) \div den
      r == (100 * num) % den
  IN  IF 2 * r > den \/ (2 * r = den /\ q % 2 = 1) THEN q + 1 ELSE q

\* TradingCalculator.calculate_quantity_for_usdt: leverage and lot size are
\* accepted and unused.
calculate_quantity_for_usdt(amount_usdt, leverage, current_price, contract_value, lot_size) ==
  Round2(amount_usdt, contract_value * current_price)

\* The price change taken per contract: the contract value is left out.
calculate_tp_sl_pricesPerContract(entry_price, side, tp_usdt, sl_usdt, quantity, contract_value) ==
  LET d == quantity
  IN  IF side = "LONG"
      THEN [tp |-> [n |-> entry_price * d + 100 * tp_usdt, d |-> d],
            sl |-> [n |-> entry_price * d - 100 * sl_usdt, d |-> d]]
      ELSE [tp |-> [n |-> entry_price * d - 100 * tp_usdt, d |-> d],
            sl |-> [n |-> entry_price * d + 100 * sl_usdt, d |-> d]]
\* TradingCalculator.calculate_tp_sl_prices.  quantity is in hundredths of a
\* contract, so crypto_amount = quantity * contract_value / 100; a price is
\* the exact fraction n / d.
calculate_tp_sl_prices(entry_price, side, tp_usdt, sl_usdt, quantity, contract_value) ==
  LET d == quantity * contract_value
  IN  IF side = "LONG"
      THEN [tp |-> [n |-> entry_price * d + 100 * tp_usdt, d |-> d],
            sl |-> [n |-> entry_price * d - 100 * sl_usdt, d |-> d]]
      ELSE [tp |-> [n |-> entry_price * d - 100 * tp_usdt, d |-> d],
            sl |-> [n |-> entry_price * d + 100 * sl_usdt, d |-> d]]

\* OKXTestnetClient.format_price: round down to the tick (one price unit).
format_price(price) == price.n \div price.d

\* OKXTestnetClient.get_position(symbol, position_side) against the exchange
\* positions ex.  res is what the gateway does: "ok" returns the position, "error" is an answer whose code is
\* not '0' or that has no data (reported as size 0, posId None), "exception"
\* is a raised error (None).
GetOutcomes == {"ok", "error", "exception"}
ZeroPosition == [positionAmt |-> 0, entryPrice |-> 0, unrealizedProfit |-> 0, posId |-> Null]
get_position(ex, pair, res) ==
  CASE res = "exception" -> Null
    [] res = "error" -> Some(ZeroPosition)
    [] OTHER -> IF ex[pair].amt = 0 THEN Some(ZeroPosition)
                ELSE Some([positionAmt |-> ex[pair].amt,
                           entryPrice |-> ex[pair].entry,
                           unrealizedProfit |-> ex[pair].upl,
                           posId |-> Some(pair)])

\* is_open_on_okx as computed in check_positions and reopen_closed_positions
IsOpenOnOkx(okx_pos) == okx_pos /= Null /\ Val(okx_pos).positionAmt > 0

\* The exchange fills a market order of quantity q at price px.
Fill(pair, px, q) ==
  LET e == exch[pair]
  IN  [exch EXCEPT ![pair] =
         [amt |-> e.amt + q,
          entry |-> IF e.amt = 0 THEN px ELSE (e.entry * e.amt + px * q) \div (e.amt + q),
          upl |-> e.upl]]

\* The exchange can fill a market order for amount_usdt at px (the position
\* limit MaxAmt bounds the model).
Fillable(pair, px, amount_usdt) ==
  exch[pair].amt
    + calculate_quantity_for_usdt(amount_usdt, Leverage, px, ContractValue, LotSize)
    <= MaxAmt

\* OKXTestnetClient.place_tp_sl_orders against the order book book, the next
\* free algoId being next.  tpOk / slOk: the exchange accepts the order.
place_tp_sl_orders(book, next, pair, side, entry_price, tp_price, sl_price, tpOk, slOk) ==
  LET is_valid_tp == /\ tp_price.n > 0
                     /\ \/ side = "LONG" /\ tp_price.n > entry_price * tp_price.d
                        \/ side = "SHORT" /\ tp_price.n < entry_price * tp_price.d
      tpPlaced == is_valid_tp /\ tpOk /\ next <= MaxOrders
      next1 == IF tpPlaced THEN next + 1 ELSE next
      is_valid_sl == /\ sl_price.n > 0
                     /\ \/ side = "LONG" /\ sl_price.n < entry_price * sl_price.d
                        \/ side = "SHORT" /\ sl_price.n > entry_price * sl_price.d
      slPlaced == is_valid_sl /\ slOk /\ next1 <= MaxOrders
  IN  [tp_order_id |-> IF tpPlaced THEN Some(next) ELSE Null,
       sl_order_id |-> IF slPlaced THEN Some(next1) ELSE Null,
       book |-> book
                \cup (IF tpPlaced
                      THEN {[id |-> next, pair |-> pair, trig |-> format_price(tp_price)]}
                      ELSE {})
                \cup (IF slPlaced
                      THEN {[id |-> next1, pair |-> pair, trig |-> format_price(sl_price)]}
                      ELSE {}),
       next |-> IF slPlaced THEN next1 + 1 ELSE next1]

\* OKXTestnetClient.cancel_algo_order on a nullable stored id: the order
\* leaves the book when the exchange accepts the cancellation.
CancelStored(book, stored, ok) ==
  IF stored /= Null /\ ok THEN {o \in book : o.id /= Val(stored)} ELSE book

\* A row as Try1Strategy.open_position saves it (_save_position_to_db).
OpenRow(side, tp, sl) ==
  [side |-> side, is_open |-> TRUE, orders_disabled |-> FALSE,
   amount_usdt |-> AmountUsdt,
   original_tp_usdt |-> OriginalTpUsdt, original_sl_usdt |-> OriginalSlUsdt,
   tp_usdt |-> OriginalTpUsdt, sl_usdt |-> OriginalSlUsdt,
   entry_price |-> 4, quantity |-> 100,
   position_id |-> Some(PositionSide([side |-> side])),
   tp_order_id |-> tp, sl_order_id |-> sl,
   closed_at |-> Null, pnl |-> Null, close_reason |-> Null,
   recovery_count |-> 0, last_recovery_at |-> Null]

\* OKXTestnetClient.is_configured on the client _ensure_strategy leaves in
\* place: the stored credentials are complete.
is_configuredAlways == TRUE
is_configured == configured

\* n of the calls of a step fail; the step is possible while the model's
\* allowance of failures lasts.
Spend(n) == n <= envLeft /\ envLeft' = envLeft - n
B2N(b) == IF b THEN 1 ELSE 0
Failed(res) == B2N(res /= "ok")

\* logger.info / logger.error at the end of a reopen attempt (lines 504-608)
\* and of a recovery step (lines 202-207), at a target-reached close of the
\* restore job (lines 315, 355) and what start_monitor, stop_monitor and
\* get_monitor return.
Log(job, id, ok) == Some([job |-> job, id |-> id, ok |-> ok])

Running == {j \in Jobs : pc[j] /= "idle"}
\* APScheduler: max_instances = 1 per job, ThreadPoolExecutor(max_workers)
CanStartUntilFailure(j) ==
  /\ envLeft = MaxEnv
  /\ monitor = "running"
  /\ pc[j] = "idle"
  /\ Cardinality(Running) < MAX_WORKERS
CanStart(j) ==
  monitor = "running" /\ pc[j] = "idle" /\ Cardinality(Running) < MAX_WORKERS

\* ------------------------------------------------------------------- Init
\* Rows as Try1Strategy.open_position leaves them: open, with their
\* protective orders live on the exchange and the exchange position holding
\* the sum of the rows of its pair.
Constructed(conf, mon, stopped, env) ==
  /\ now = 0
  /\ configured = conf
  /\ monitor = mon
  /\ manually_stopped = stopped
  /\ started = ~stopped
  /\ delay \in 1..MaxDelay
  /\ steps \in StepConfigs
  /\ \E sides \in [PosIds -> {"LONG", "SHORT"}] :
       /\ sides[1] = "LONG"
       /\ db = [p \in PosIds |-> OpenRow(sides[p], Some(2 * p - 1), Some(2 * p))]
       /\ exch = [pr \in Pairs |->
                   LET n == Cardinality({p \in PosIds : PositionSide([side |-> sides[p]]) = pr})
                   IN  [amt |-> 100 * n, entry |-> IF n = 0 THEN 0 ELSE 4, upl |-> 0]]
       /\ orders = UNION {{[id |-> 2 * p - 1, pair |-> PositionSide([side |-> sides[p]]),
                            trig |-> IF sides[p] = "LONG" THEN 5 ELSE 3],
                           [id |-> 2 * p, pair |-> PositionSide([side |-> sides[p]]),
                            trig |-> IF sides[p] = "LONG" THEN 2 ELSE 6]}
                          : p \in PosIds}
  /\ nextOrd = 2 * NumPos + 1
  /\ queue = [p \in PosIds |-> Null]
  /\ inRecovery = {}
  /\ pc = [j \in Jobs |-> "idle"]
  /\ orphanIds = {}
  /\ toReopen = <<>>
  /\ toRemove = {}
  /\ toRecover = <<>>
  /\ recPos = Null
  /\ lastFired = Null
  /\ logged = Null
  /\ envLeft = env
  /\ unrecorded = {}
  /\ replaced = {}

\* The same with no calculator call singled out.
InitWith(conf, mon, stopped, env) ==
  /\ Constructed(conf, mon, stopped, env)
  /\ calc = Null

\* The scheduler running after start_monitor, credentials in place.
Init == InitWith(TRUE, "running", FALSE, MaxEnv)

jobVars == <<pc, orphanIds, toReopen, toRemove, toRecover, recPos>>
confVars == <<configured, delay, steps>>
lifeVars == <<monitor, manually_stopped, started, replaced>>

\* ------------------------------------------------------------ environment
\* The clock advances.
Tick ==
  /\ now < MaxTime
  /\ now' = now + 1
  /\ logged' = Null
  /\ UNCHANGED <<confVars, lifeVars, calc, unrecorded, db, queue, inRecovery, exch, orders, nextOrd, jobVars,
                 lastFired, envLeft>>

\* The exchange position of a pair goes flat outside the scheduler's control:
\* a protective order fills (and leaves the book), or the position is closed
\* by hand or liquidated (every order stays).
ExchangeClose(pair) ==
  /\ envLeft > 0
  /\ exch[pair].amt > 0
  /\ \E filled \in {Null} \cup {Some(o) : o \in {x \in orders : x.pair = pair}} :
       orders' = IF filled = Null THEN orders ELSE orders \ {Val(filled)}
  /\ exch' = [exch EXCEPT ![pair] = [amt |-> 0, entry |-> 0, upl |-> 0]]
  /\ envLeft' = envLeft - 1
  /\ lastFired' = Null
  /\ logged' = Null
  /\ UNCHANGED <<now, confVars, lifeVars, calc, unrecorded, db, queue, inRecovery, nextOrd, jobVars>>

\* The position of a pair is opened on the exchange by another path (by hand).
ExchangeOpen(pair) ==
  /\ envLeft > 0
  /\ exch[pair].amt = 0
  /\ \E px \in Prices : exch' = Fill(pair, px, 100)
  /\ envLeft' = envLeft - 1
  /\ lastFired' = Null
  /\ logged' = Null
  /\ UNCHANGED <<now, confVars, lifeVars, calc, unrecorded, db, queue, inRecovery, orders, nextOrd, jobVars>>

\* The market moves the unrealized PnL of an open exchange position.
PnlMove(pair) ==
  /\ exch[pair].amt > 0
  /\ \E u \in PnlLevels :
       /\ u /= exch[pair].upl
       /\ exch' = [exch EXCEPT ![pair].upl = u]
  /\ lastFired' = Null
  /\ logged' = Null
  /\ UNCHANGED <<now, confVars, lifeVars, calc, unrecorded, db, queue, inRecovery, orders, nextOrd, jobVars, envLeft>>

\* ------------------------------------------- job: detect-exchange-closure
\* PositionMonitor.check_positions: one whole tick.  res[p] is what
\* get_position does for row p.
\* Lines 228-234: the rows the loop asks the exchange about: the open rows
\* whose id is not in the queue.
AskedAgain == {p \in PosIds : db[p].is_open}
Asked == {p \in PosIds : db[p].is_open /\ queue[p] = Null}

\* The entry of a row found open on the exchange is dropped.
QueueAfterCheckForgetting(res) ==
  [p \in PosIds |->
     IF db[p].is_open
        /\ IsOpenOnOkx(get_position(exch, PositionSide(db[p]), res[p]))
     THEN Null
     ELSE IF p \in Asked THEN Some(now) ELSE queue[p]]
QueueAfterCheck(res) ==
  [p \in PosIds |->
     IF p \in Asked
        /\ ~IsOpenOnOkx(get_position(exch, PositionSide(db[p]), res[p]))
     THEN Some(now) ELSE queue[p]]

check_positions ==
  /\ CanStart("position_checker")
  /\ IF ~is_configured
     THEN UNCHANGED <<queue, envLeft>>
     ELSE \E res \in [PosIds -> GetOutcomes] :
            LET asked == Asked
            IN  /\ \A p \in PosIds \ asked : res[p] = "ok"
                /\ Spend(Cardinality({p \in asked : res[p] /= "ok"}))
                /\ queue' = QueueAfterCheck(res)
  /\ logged' = Null
  /\ UNCHANGED <<now, confVars, lifeVars, calc, unrecorded, db, inRecovery, exch, orders, nextOrd, jobVars, lastFired>>

\* ------------------------------------------- job: reopen-closed-positions
\* current_time >= closed_time + timedelta(minutes=self.auto_reopen_delay_minutes)
IsDueAtOnce(p, current_time) ==
  queue[p] /= Null /\ current_time >= Val(queue[p])
IsDue(p, current_time) ==
  queue[p] /= Null /\ current_time >= Val(queue[p]) + delay * TicksPerMinute

\* The ids of S in the order the queue dict yields them: by insertion, that is
\* by recorded time and, within one check_positions tick, by row id.
RECURSIVE InQueueOrder(_)
InQueueOrder(S) ==
  IF S = {} THEN <<>>
  ELSE LET first == CHOOSE p \in S : \A q \in S :
                      \/ Val(queue[p]) < Val(queue[q])
                      \/ Val(queue[p]) = Val(queue[q]) /\ p <= q
       IN  <<first>> \o InQueueOrder(S \ {first})

\* The final loop of reopen_closed_positions: del closed_positions_for_reopen[id]
DequeueRestamping(ids) == [p \in PosIds |-> IF p \in ids THEN Null ELSE Some(now)]
Dequeue(ids) == [p \in PosIds |-> IF p \in ids THEN Null ELSE queue[p]]

\* session.commit() of a session that loaded the row as loaded and assigned
\* the columns of set since: the UPDATE carries the columns whose assigned
\* value differs from the loaded one, every other column keeps what the store
\* holds (cur).
Flush(cur, loaded, set) ==
  [f \in DOMAIN cur |->
     IF f \in DOMAIN set /\ set[f] /= loaded[f] THEN set[f] ELSE cur[f]]

\* session.commit() when ok; a commit that raises is followed by rollback()
\* and the store keeps the row it holds.
CommitAlways(ok, cur, loaded, set) == Flush(cur, loaded, set)
Commit(ok, cur, loaded, set) == IF ok THEN Flush(cur, loaded, set) ELSE cur

\* commit() and rollback() expire every object of the session: the next access
\* loads the row again.
Expire(entries) == [i \in DOMAIN entries |-> [id |-> entries[i].id, pos |-> Null]]

\* The loop over positions_to_reopen moves to its next entry, or the job ends.
\* expired: the iteration ended in commit() or rollback().
ReopenAdvanceDequeue(remove, expired) ==
  IF Len(toReopen) > 1
  THEN /\ toReopen' = IF expired THEN Expire(Tail(toReopen)) ELSE Tail(toReopen)
       /\ toRemove' = remove \cup {Head(toReopen).id}
       /\ pc' = [pc EXCEPT !["position_reopener"] = "order"]
       /\ UNCHANGED queue
  ELSE /\ toReopen' = <<>>
       /\ toRemove' = {}
       /\ pc' = [pc EXCEPT !["position_reopener"] = "idle"]
       /\ queue' = Dequeue(remove \cup {Head(toReopen).id})
ReopenAdvance(remove, expired) ==
  IF Len(toReopen) > 1
  THEN /\ toReopen' = IF expired THEN Expire(Tail(toReopen)) ELSE Tail(toReopen)
       /\ toRemove' = remove
       /\ pc' = [pc EXCEPT !["position_reopener"] = "order"]
       /\ UNCHANGED queue
  ELSE /\ toReopen' = <<>>
       /\ toRemove' = {}
       /\ pc' = [pc EXCEPT !["position_reopener"] = "idle"]
       /\ queue' = Dequeue(remove)

\* Lines 455-494: the pass over the queue that decides what to reopen.
reopen_begin ==
  /\ CanStart("position_reopener")
  /\ IF ~is_configured
     THEN UNCHANGED <<queue, pc, toReopen, toRemove, envLeft>>
     ELSE \E res \in [PosIds -> GetOutcomes] :
            LET due == {p \in PosIds : IsDue(p, now)}
                open == {p \in due : IsOpenOnOkx(get_position(exch, PositionSide(db[p]), res[p]))}
                ids == InQueueOrder(due \ open)
            IN  /\ \A p \in PosIds \ due : res[p] = "ok"
                /\ Spend(Cardinality({p \in due : res[p] /= "ok"}))
                /\ IF due \ open = {}
                   THEN /\ queue' = Dequeue(open)
                        /\ UNCHANGED <<pc, toReopen, toRemove>>
                   ELSE /\ toReopen' = [i \in DOMAIN ids |->
                                          [id |-> ids[i], pos |-> Some(db[ids[i]])]]
                        /\ toRemove' = open
                        /\ pc' = [pc EXCEPT !["position_reopener"] = "order"]
                        /\ UNCHANGED queue
  /\ logged' = Null
  /\ UNCHANGED <<now, confVars, lifeVars, calc, unrecorded, db, inRecovery, exch, orders, nextOrd,
                 orphanIds, toRecover, recPos, lastFired>>

\* Lines 496-527: price, quantity and the market order of the entry at hand.
\* px = 0 is get_symbol_price returning None.
reopen_order ==
  /\ pc["position_reopener"] = "order"
  /\ LET p == Head(toReopen).id
         pos == IF Head(toReopen).pos = Null THEN db[p] ELSE Val(Head(toReopen).pos)
         pair == PositionSide(pos)
     IN  \E px \in Prices \cup {0}, accepted \in BOOLEAN :
           /\ px = 0 => accepted
           /\ Spend(B2N(px = 0 \/ ~accepted))
           /\ IF px = 0 \/ ~accepted \/ ~Fillable(pair, px, pos.amount_usdt)
              THEN /\ ReopenAdvance(toRemove, FALSE)
                   /\ logged' = Log("reopen", p, FALSE)
                   /\ UNCHANGED <<exch, unrecorded>>
              ELSE /\ exch' = Fill(pair, px,
                                  calculate_quantity_for_usdt(pos.amount_usdt, Leverage, px,
                                                              ContractValue, LotSize))
                   /\ toReopen' = [toReopen EXCEPT ![1].pos = Some(pos)]
                   /\ pc' = [pc EXCEPT !["position_reopener"] = "readback"]
                   /\ unrecorded' = unrecorded \cup {p}
                   /\ logged' = Null
                   /\ UNCHANGED <<queue, toRemove>>
  /\ lastFired' = IF exch' = exch THEN lastFired ELSE Null
  /\ UNCHANGED <<now, confVars, lifeVars, calc, db, inRecovery, orders, nextOrd,
                 orphanIds, toRecover, recPos>>

\* Lines 583-598: the columns a reopen assigns.  original_tp_usdt and
\* original_sl_usdt of every row are OriginalTpUsdt and OriginalSlUsdt.
ReopenedRowUntouched(okx_pos, placed) == <<>>
ReopenedRow(okx_pos, placed) ==
  [entry_price |-> okx_pos.entryPrice,
   quantity |-> okx_pos.positionAmt,
   position_id |-> okx_pos.posId,
   tp_order_id |-> placed.tp_order_id,
   sl_order_id |-> placed.sl_order_id,
   is_open |-> TRUE,
   closed_at |-> Null,
   pnl |-> Null,
   close_reason |-> Null,
   recovery_count |-> 0,
   last_recovery_at |-> Null,
   tp_usdt |-> OriginalTpUsdt,
   sl_usdt |-> OriginalSlUsdt]

\* Lines 529-609, after time.sleep(2): read the position back, cancel the old
\* protective orders, place the new ones and update the row.
reopen_finish ==
  /\ pc["position_reopener"] = "readback"
  /\ LET p == Head(toReopen).id
         pos == Val(Head(toReopen).pos)
         pair == PositionSide(pos)
     IN  \E res \in GetOutcomes, cancelTp, cancelSl, tpOk, slOk, commitOk \in BOOLEAN :
           LET okx_pos == get_position(exch, pair, res)
           IN  IF okx_pos = Null \/ Val(okx_pos).positionAmt = 0 \/ Val(okx_pos).posId = Null
               THEN /\ cancelTp /\ cancelSl /\ tpOk /\ slOk /\ commitOk
                    /\ Spend(Failed(res))
                    /\ ReopenAdvance(toRemove, FALSE)
                    /\ logged' = Log("reopen", p, FALSE)
                    /\ UNCHANGED <<db, orders, nextOrd, lastFired, unrecorded>>
               ELSE LET got == Val(okx_pos)
                        prices == calculate_tp_sl_prices(got.entryPrice, pos.side,
                                    pos.original_tp_usdt, pos.original_sl_usdt,
                                    got.positionAmt, ContractValue)
                        book == CancelStored(CancelStored(orders, pos.tp_order_id, cancelTp),
                                             pos.sl_order_id, cancelSl)
                        placed == place_tp_sl_orders(book, nextOrd, pair, pos.side,
                                    got.entryPrice, prices.tp, prices.sl, tpOk, slOk)
                    IN  /\ Spend(Failed(res) + B2N(~cancelTp) + B2N(~cancelSl)
                                 + B2N(~tpOk) + B2N(~slOk) + B2N(~commitOk))
                        /\ orders' = placed.book
                        /\ nextOrd' = placed.next
                        /\ db' = [db EXCEPT ![p] =
                                   Commit(commitOk, db[p], pos, ReopenedRow(got, placed))]
                        /\ IF commitOk
                           THEN /\ ReopenAdvance(toRemove \cup {p}, TRUE)
                                /\ logged' = Log("reopen", p, TRUE)
                                /\ unrecorded' = unrecorded \ {p}
                                /\ lastFired' = Null
                           ELSE /\ ReopenAdvance(toRemove, TRUE)
                                /\ logged' = Log("reopen", p, FALSE)
                                /\ UNCHANGED <<lastFired, unrecorded>>
  /\ UNCHANGED <<now, confVars, lifeVars, calc, inRecovery, exch, orphanIds, toRecover, recPos>>

\* ------------------------------------------------ job: recovery-monitor
\* Ids of S in ascending order (the order a query returns its rows).
RECURSIVE InIdOrder(_)
InIdOrder(S) ==
  IF S = {} THEN <<>>
  ELSE LET first == CHOOSE p \in S : \A q \in S : p <= q
       IN  <<first>> \o InIdOrder(S \ {first})

\* _load_recovery_settings, called at the top of every check_recovery tick:
\* the ladder the settings table holds at that moment.
_load_recovery_settingsOnce == steps0
_load_recovery_settings == steps

\* check_recovery lines 137-180: the pos_data of row p, given what
\* get_position answered, or Null when the row is passed over.
PosDataUnlimited(p, okx_pos) ==
  LET current_recovery_count == db[p].recovery_count
      last == IF current_recovery_count < Len(_load_recovery_settings)
              THEN current_recovery_count + 1 ELSE Len(_load_recovery_settings)
  IN  IF p \in inRecovery \/ okx_pos = Null
      THEN Null
      ELSE IF \/ Val(okx_pos).positionAmt = 0
              \/ ~(Val(okx_pos).unrealizedProfit <= _load_recovery_settings[last].trigger_pnl)
           THEN Null
           ELSE Some([pos_id |-> p,
                      unrealized_pnl |-> Val(okx_pos).unrealizedProfit,
                      trigger_pnl |-> _load_recovery_settings[last].trigger_pnl,
                      add_amount |-> _load_recovery_settings[last].add_amount,
                      tp_usdt |-> _load_recovery_settings[last].tp_usdt,
                      sl_usdt |-> _load_recovery_settings[last].sl_usdt,
                      step_num |-> current_recovery_count + 1])
PosData(p, okx_pos) ==
  LET current_recovery_count == db[p].recovery_count
  IN  IF \/ p \in inRecovery
         \/ current_recovery_count >= Len(_load_recovery_settings)
         \/ okx_pos = Null
      THEN Null
      ELSE LET next_step == _load_recovery_settings[current_recovery_count + 1]
           IN  IF \/ Val(okx_pos).positionAmt = 0
                  \/ ~(Val(okx_pos).unrealizedProfit <= next_step.trigger_pnl)
               THEN Null
               ELSE Some([pos_id |-> p,
                          unrealized_pnl |-> Val(okx_pos).unrealizedProfit,
                          trigger_pnl |-> next_step.trigger_pnl,
                          add_amount |-> next_step.add_amount,
                          tp_usdt |-> next_step.tp_usdt,
                          sl_usdt |-> next_step.sl_usdt,
                          step_num |-> current_recovery_count + 1])

\* check_recovery lines 114-180: collect the rows whose next step is triggered.
\* The ladder is read once, here.  A failure of the store raises to the outer
\* handler, which clears positions_in_recovery.
check_recovery ==
  /\ CanStart("recovery_checker")
  /\ IF ~is_configured
     THEN \E dbOk \in BOOLEAN :
            /\ Spend(B2N(~dbOk))
            /\ inRecovery' = IF dbOk THEN inRecovery ELSE {}
            /\ UNCHANGED <<pc, toRecover>>
     ELSE \E res \in [PosIds -> GetOutcomes], dbOk \in BOOLEAN :
            LET asked == {p \in PosIds : /\ db[p].is_open
                                         /\ p \notin inRecovery
                                         /\ db[p].recovery_count < Len(_load_recovery_settings)}
                data == [p \in PosIds |->
                           IF db[p].is_open
                           THEN PosData(p, get_position(exch, PositionSide(db[p]), res[p]))
                           ELSE Null]
                hit == {p \in PosIds : data[p] /= Null}
                ids == InIdOrder(hit)
            IN  /\ \A p \in PosIds \ asked : res[p] = "ok"
                /\ ~dbOk => \A p \in PosIds : res[p] = "ok"
                /\ Spend(Cardinality({p \in asked : res[p] /= "ok"}) + B2N(~dbOk))
                /\ IF ~dbOk
                   THEN /\ inRecovery' = {}
                        /\ UNCHANGED <<pc, toRecover>>
                   ELSE /\ toRecover' = [i \in DOMAIN ids |-> Val(data[ids[i]])]
                        /\ pc' = IF hit = {} THEN pc
                                 ELSE [pc EXCEPT !["recovery_checker"] = "start"]
                        /\ UNCHANGED inRecovery
  /\ logged' = Null
  /\ UNCHANGED <<now, confVars, lifeVars, calc, unrecorded, db, queue, exch, orders, nextOrd,
                 orphanIds, toReopen, toRemove, recPos, lastFired>>

\* The loop over positions_to_recover moves to its next entry, or the job ends.
RecoveryAdvance ==
  /\ toRecover' = Tail(toRecover)
  /\ recPos' = Null
  /\ pc' = [pc EXCEPT !["recovery_checker"] =
              IF Len(toRecover) > 1 THEN "start" ELSE "idle"]

\* OKXTestnetClient.cancel_all_position_orders: the live orders of the pair
\* leave the book, except kept, the ones whose cancellation (or the listing
\* itself) fails.
cancel_all_position_orders(book, pair, kept) ==
  {o \in book : o.pair /= pair \/ o \in kept}

\* check_recovery lines 183-194 and execute_recovery lines 380-427: guard the
\* id, load the row, verify the exchange position, cancel its orders, price
\* the addition and submit it.
execute_recovery_start ==
  /\ pc["recovery_checker"] = "start"
  /\ LET pd == Head(toRecover)
         p == pd.pos_id
         pos == db[p]
         pair == PositionSide(pos)
     IN  IF p \in inRecovery \/ ~pos.is_open
         THEN /\ RecoveryAdvance
              /\ logged' = IF p \in inRecovery THEN Null ELSE Log("recovery", p, FALSE)
              /\ UNCHANGED <<inRecovery, exch, orders, envLeft>>
         ELSE \E res \in GetOutcomes, px \in Prices \cup {0}, accepted \in BOOLEAN,
                 kept \in SUBSET {o \in orders : o.pair = pair} :
                LET okx_pos_check == get_position(exch, pair, res)
                    add_quantity == IF px = 0 THEN 0
                                    ELSE calculate_quantity_for_usdt(pd.add_amount, Leverage,
                                           px, ContractValue, LotSize)
                IN  IF okx_pos_check = Null \/ Val(okx_pos_check).positionAmt = 0
                    THEN /\ px /= 0 /\ accepted /\ kept = {}
                         /\ Spend(Failed(res))
                         /\ RecoveryAdvance
                         /\ logged' = Log("recovery", p, FALSE)
                         /\ UNCHANGED <<inRecovery, exch, orders>>
                    ELSE /\ px = 0 => accepted
                         /\ Spend(Failed(res) + B2N(kept /= {}) + B2N(px = 0 \/ ~accepted))
                         /\ orders' = cancel_all_position_orders(orders, pair, kept)
                         /\ IF \/ px = 0 \/ add_quantity < 1 \/ ~accepted
                               \/ exch[pair].amt + add_quantity > MaxAmt
                            THEN /\ RecoveryAdvance
                                 /\ logged' = Log("recovery", p, FALSE)
                                 /\ UNCHANGED <<inRecovery, exch>>
                            ELSE /\ exch' = Fill(pair, px, add_quantity)
                                 /\ inRecovery' = inRecovery \cup {p}
                                 /\ recPos' = Some(pos)
                                 /\ pc' = [pc EXCEPT !["recovery_checker"] = "finish"]
                                 /\ logged' = Null
                                 /\ UNCHANGED toRecover
  /\ UNCHANGED <<now, confVars, lifeVars, calc, unrecorded, db, queue, nextOrd,
                 orphanIds, toReopen, toRemove, lastFired>>

\* execute_recovery lines 464-479: the columns a recovery step assigns.  The
\* counter is read from the loaded object.
RecoveredRowRebased(loaded, okx_pos, placed, new_tp_usdt, new_sl_usdt, at) ==
  [entry_price |-> okx_pos.entryPrice,
   quantity |-> okx_pos.positionAmt,
   position_id |-> okx_pos.posId,
   tp_usdt |-> new_tp_usdt,
   sl_usdt |-> new_sl_usdt,
   original_tp_usdt |-> new_tp_usdt,
   original_sl_usdt |-> new_sl_usdt,
   tp_order_id |-> placed.tp_order_id,
   sl_order_id |-> placed.sl_order_id,
   recovery_count |-> loaded.recovery_count + 1,
   last_recovery_at |-> Some(at)]
RecoveredRow(loaded, okx_pos, placed, new_tp_usdt, new_sl_usdt, at) ==
  [entry_price |-> okx_pos.entryPrice,
   quantity |-> okx_pos.positionAmt,
   position_id |-> okx_pos.posId,
   tp_usdt |-> new_tp_usdt,
   sl_usdt |-> new_sl_usdt,
   tp_order_id |-> placed.tp_order_id,
   sl_order_id |-> placed.sl_order_id,
   recovery_count |-> loaded.recovery_count + 1,
   last_recovery_at |-> Some(at)]

\* check_recovery lines 208-209: finally: self.positions_in_recovery.discard(pos_id)
ReleaseNever(p) == inRecovery
Release(p) == inRecovery \ {p}

\* execute_recovery lines 429-494, after time.sleep(2), and check_recovery
\* lines 201-209: read the position back, place the step's protective orders,
\* update the row, release the guard.
execute_recovery_finish ==
  /\ pc["recovery_checker"] = "finish"
  /\ LET pd == Head(toRecover)
         p == pd.pos_id
         pos == Val(recPos)
         pair == PositionSide(pos)
     IN  \E res \in GetOutcomes, tpOk, slOk, commitOk \in BOOLEAN :
           LET okx_pos == get_position(exch, pair, res)
           IN  IF okx_pos = Null \/ Val(okx_pos).positionAmt = 0
               THEN /\ tpOk /\ slOk /\ commitOk
                    /\ Spend(Failed(res))
                    /\ logged' = Log("recovery", p, FALSE)
                    /\ UNCHANGED <<db, orders, nextOrd, lastFired>>
               ELSE LET got == Val(okx_pos)
                        prices == calculate_tp_sl_prices(got.entryPrice, pos.side,
                                    pd.tp_usdt, pd.sl_usdt, got.positionAmt, ContractValue)
                        placed == place_tp_sl_orders(orders, nextOrd, pair, pos.side,
                                    got.entryPrice, prices.tp, prices.sl, tpOk, slOk)
                    IN  /\ Spend(Failed(res) + B2N(~tpOk) + B2N(~slOk) + B2N(~commitOk))
                        /\ orders' = placed.book
                        /\ nextOrd' = placed.next
                        /\ db' = [db EXCEPT ![p] =
                                   Commit(commitOk, db[p], pos,
                                          RecoveredRow(pos, got, placed,
                                                       pd.tp_usdt, pd.sl_usdt, now))]
                        /\ logged' = Log("recovery", p, commitOk)
                        /\ lastFired' = IF commitOk
                                        THEN Some([id |-> p, step_num |-> pd.step_num,
                                                   streak |-> IF lastFired /= Null /\ Val(lastFired).id = p
                                                              THEN Val(lastFired).streak + 1
                                                              ELSE 1])
                                        ELSE lastFired
  /\ inRecovery' = Release(Head(toRecover).pos_id)
  /\ RecoveryAdvance
  /\ UNCHANGED <<now, confVars, lifeVars, calc, unrecorded, queue, exch, orphanIds, toReopen, toRemove>>

\* ------------------------------------------------ job: orphan-cancellation
\* cancel_orphaned_orders lines 400-408: active_tp_sl_ids
ActiveTpSlIds ==
  UNION {Range(db[p].tp_order_id) \cup Range(db[p].sl_order_id) :
           p \in {q \in PosIds : db[q].is_open}}

\* cancel_orphaned_orders lines 394-408: read the tracked ids in a session of
\* their own.
cancel_orphaned_orders ==
  /\ CanStart("order_canceller")
  /\ IF ~is_configured
     THEN UNCHANGED <<pc, orphanIds>>
     ELSE /\ orphanIds' = ActiveTpSlIds
          /\ pc' = [pc EXCEPT !["order_canceller"] = "list"]
  /\ logged' = Null
  /\ UNCHANGED <<now, confVars, lifeVars, calc, unrecorded, db, queue, inRecovery, exch, orders, nextOrd,
                 toReopen, toRemove, toRecover, recPos, lastFired, envLeft>>

\* cancel_orphaned_orders lines 410-447: the orders the job asks the exchange
\* to cancel.  A listing that fails is the empty list (get_algo_orders,
\* get_all_positions).
OrphanedOrders(all_orders, position_keys, active_tp_sl_ids) ==
  {o \in all_orders : o.id \notin active_tp_sl_ids /\ o.pair \notin position_keys}

\* cancel_orphaned_orders lines 410-453: list the orders and the positions and
\* cancel.  kept: the orders whose cancellation the exchange refuses.  A
\* failed position listing is logged by get_all_positions and by nobody else.
CancelOrphans(active_tp_sl_ids) ==
  \E listOk, posOk \in BOOLEAN :
    LET all_orders == IF listOk THEN orders ELSE {}
        position_keys == IF posOk THEN {pr \in Pairs : exch[pr].amt > 0} ELSE {}
        orphaned == OrphanedOrders(all_orders, position_keys, active_tp_sl_ids)
    IN  \E kept \in SUBSET orphaned :
          /\ ~listOk => posOk
          /\ Spend(B2N(~listOk) + B2N(~posOk) + B2N(kept /= {}))
          /\ orders' = orders \ (orphaned \ kept)
          /\ logged' = IF posOk THEN Null ELSE Log("get_all_positions", 0, FALSE)
cancel_orphaned_orders_cancel ==
  /\ pc["order_canceller"] = "list"
  /\ CancelOrphans(orphanIds)
  /\ orphanIds' = {}
  /\ pc' = [pc EXCEPT !["order_canceller"] = "idle"]
  /\ UNCHANGED <<now, confVars, lifeVars, calc, unrecorded, db, queue, inRecovery, exch, nextOrd,
                 toReopen, toRemove, toRecover, recPos, lastFired>>

\* The same step of a run that a replaced monitor left executing:
\* scheduler.shutdown(wait=False) does not wait for it and the run ends on
\* the thread pool of the scheduler that was shut down.
cancel_orphaned_orders_cancelReplaced ==
  /\ \E ids \in replaced :
       /\ CancelOrphans(ids)
       /\ replaced' = replaced \ {ids}
  /\ UNCHANGED <<now, confVars, monitor, manually_stopped, started, calc, unrecorded, db,
                 queue, inRecovery, exch, nextOrd, jobVars, lastFired>>

\* ------------------------------------------------ job: restore-tp-sl
\* OKXTestnetClient.close_position_market with sz = int(quantity): the exchange
\* takes the whole contracts of quantity off the position of the pair.
CloseFill(ex, pair, quantity) ==
  LET sz == 100 * (quantity \div 100)
      left == IF ex[pair].amt > sz THEN ex[pair].amt - sz ELSE 0
  IN  IF sz = 0 THEN ex
      ELSE [ex EXCEPT ![pair] = IF left = 0 THEN [amt |-> 0, entry |-> 0, upl |-> 0]
                                ELSE [ex[pair] EXCEPT !.amt = left]]

\* Lines 319-322 and 359-362: the columns a target-reached close assigns.
ClosedRowStillOpen(unrealized_pnl, reason, at) ==
  [closed_at |-> Some(at), pnl |-> Some(unrealized_pnl), close_reason |-> Some(reason)]
ClosedRow(unrealized_pnl, reason, at) ==
  [is_open |-> FALSE, closed_at |-> Some(at), pnl |-> Some(unrealized_pnl),
   close_reason |-> Some(reason)]

\* Lines 289-305: which protective orders the listing shows for the row.
HasTp(all_orders, pair, side, entry_price) ==
  \E o \in all_orders :
    /\ o.pair = pair
    /\ IF side = "LONG" THEN o.trig > entry_price ELSE o.trig < entry_price
HasSl(all_orders, pair, side, entry_price) ==
  \E o \in all_orders :
    /\ o.pair = pair
    /\ IF side = "LONG" THEN o.trig < entry_price ELSE o.trig > entry_price

\* Lines 262-267: the loop passes over a row that is not open, or whose
\* orders_disabled flag is set, or once a commit has raised.
SkipsRowIgnoringFlag(st, pos) == st.raised \/ ~pos.is_open
SkipsRow(st, pos) == st.raised \/ ~pos.is_open \/ pos.orders_disabled

\* What the gateway and the store do during the visit of one row.
RestoreChoices ==
  [res : GetOutcomes, listOk : BOOLEAN, closeOk : BOOLEAN, tpOk : BOOLEAN,
   slOk : BOOLEAN, commitOk : BOOLEAN]

\* Lines 264-389: the visit of row p.  st is the store, the exchange and the
\* order book as the visit finds them, raised tells that an earlier commit
\* failed and ended the job, log is the last target-reached close logged
\* (lines 315 and 355, with what close_position_market returned) or, with no
\* close in the visit, the error get_algo_orders logs for a failed listing, used counts
\* the calls of c that were made and failed.  A listing that fails is the empty list.  A commit that fails
\* raises out of the job.
RestoreRow(st, p, c) ==
  LET pos == st.db[p]
      pair == PositionSide(pos)
      okx_pos == get_position(st.exch, pair, c.res)
  IN  IF SkipsRow(st, pos)
      THEN st
      ELSE IF okx_pos = Null \/ Val(okx_pos).positionAmt = 0
      THEN [st EXCEPT !.used = @ + Failed(c.res)]
      ELSE
        LET unrealized_pnl == Val(okx_pos).unrealizedProfit
            entry_price == Val(okx_pos).entryPrice
            quantity == Val(okx_pos).positionAmt
            all_orders == IF c.listOk THEN st.orders ELSE {}
            has_tp == HasTp(all_orders, pair, pos.side, entry_price)
            has_sl == HasSl(all_orders, pair, pos.side, entry_price)
            tp_usdt == pos.original_tp_usdt
            sl_usdt == pos.original_sl_usdt
            prices == calculate_tp_sl_prices(entry_price, pos.side, tp_usdt, sl_usdt,
                                             quantity, ContractValue)
            closeTp == ~has_tp /\ unrealized_pnl >= tp_usdt
            tryTp == ~has_tp /\ ~closeTp
            placeTp == tryTp /\ c.tpOk /\ st.nextOrd <= MaxOrders
            set1 == IF closeTp THEN ClosedRow(unrealized_pnl, "TP", now)
                    ELSE IF placeTp THEN [tp_order_id |-> Some(st.nextOrd)] ELSE <<>>
            commit1 == closeTp \/ placeTp
            row1 == IF commit1 THEN Commit(c.commitOk, pos, pos, set1) ELSE pos
            book1 == IF placeTp
                     THEN st.orders \cup {[id |-> st.nextOrd, pair |-> pair,
                                           trig |-> format_price(prices.tp)]}
                     ELSE st.orders
            next1 == IF placeTp THEN st.nextOrd + 1 ELSE st.nextOrd
            raised1 == commit1 /\ ~c.commitOk
            closeSl == ~raised1 /\ ~has_sl /\ unrealized_pnl <= 0 - sl_usdt
            trySl == ~raised1 /\ ~has_sl /\ ~closeSl
            placeSl == trySl /\ c.slOk /\ next1 <= MaxOrders
            set2 == IF closeSl THEN ClosedRow(unrealized_pnl, "SL", now)
                    ELSE IF placeSl THEN [sl_order_id |-> Some(next1)] ELSE <<>>
            commit2 == closeSl \/ placeSl
            row2 == IF commit2 THEN Commit(c.commitOk, row1, row1, set2) ELSE row1
            book2 == IF placeSl
                     THEN book1 \cup {[id |-> next1, pair |-> pair,
                                       trig |-> format_price(prices.sl)]}
                     ELSE book1
            next2 == IF placeSl THEN next1 + 1 ELSE next1
        IN  [db |-> [st.db EXCEPT ![p] = row2],
             exch |-> IF (closeTp \/ closeSl) /\ c.closeOk
                      THEN CloseFill(st.exch, pair, quantity) ELSE st.exch,
             orders |-> book2,
             nextOrd |-> next2,
             raised |-> (commit1 \/ commit2) /\ ~c.commitOk,
             log |-> IF closeTp \/ closeSl THEN Log("close", p, c.closeOk)
                     ELSE IF ~c.listOk THEN Log("get_algo_orders", p, FALSE)
                     ELSE st.log,
             used |-> st.used + Failed(c.res) + B2N(~c.listOk)
                        + B2N((closeTp \/ closeSl) /\ ~c.closeOk)
                        + B2N(tryTp /\ ~c.tpOk) + B2N(trySl /\ ~c.slOk)
                        + B2N((commit1 \/ commit2) /\ ~c.commitOk)]

\* The loop of line 264 over the rows ids, in order.
RECURSIVE RestoreRows(_, _, _)
RestoreRows(st, ids, cs) ==
  IF ids = <<>> THEN st
  ELSE RestoreRows(RestoreRow(st, Head(ids), cs[Head(ids)]), Tail(ids), cs)

\* The number of failures cs asks for.
Failures(c) ==
  Failed(c.res) + B2N(~c.listOk) + B2N(~c.closeOk) + B2N(~c.tpOk) + B2N(~c.slOk)
    + B2N(~c.commitOk)
RECURSIVE SumFailures(_, _)
SumFailures(cs, S) ==
  IF S = {} THEN 0
  ELSE LET p == CHOOSE q \in S : TRUE IN Failures(cs[p]) + SumFailures(cs, S \ {p})

\* check_and_restore_tp_sl_orders: one whole tick.
check_and_restore_tp_sl_orders ==
  /\ CanStart("tp_sl_restorer")
  /\ IF ~is_configured
     THEN /\ logged' = Null
          /\ UNCHANGED <<db, exch, orders, nextOrd, envLeft>>
     ELSE \E cs \in [PosIds -> RestoreChoices] :
            LET ids == InIdOrder({p \in PosIds : db[p].is_open})
                st == RestoreRows([db |-> db, exch |-> exch, orders |-> orders,
                                   nextOrd |-> nextOrd, raised |-> FALSE, log |-> Null,
                                   used |-> 0],
                                  ids, cs)
            IN  /\ SumFailures(cs, PosIds) <= envLeft
                /\ SumFailures(cs, PosIds) = st.used
                /\ Spend(st.used)
                /\ db' = st.db
                /\ exch' = st.exch
                /\ orders' = st.orders
                /\ nextOrd' = st.nextOrd
                /\ logged' = st.log
  /\ lastFired' = IF exch' = exch THEN lastFired ELSE Null
  /\ UNCHANGED <<now, confVars, lifeVars, calc, unrecorded, queue, inRecovery, jobVars>>

\* ------------------------------------------------ operator and user
\* monitor = PositionMonitor(...) followed by monitor.start(): the new monitor
\* has an empty reopen queue and an empty in-recovery set and the delay d,
\* and a scheduler and thread pool of its own with no job instance running.
\* A monitor is replaced once the jobs of the one it replaces that use its
\* queue or its in-recovery set have ended; a cleanup run of the replaced
\* monitor that is in flight goes on beside the new scheduler.  A run that
\* outlasts the shutdown and the restart is one of the exchange-side events
\* envLeft counts: its gateway calls are slow to return.
KeepsRunning == IF pc["order_canceller"] = "list" THEN {orphanIds} ELSE {}
Outlasts(constructs) == IF constructs THEN Cardinality(KeepsRunning) ELSE 0
Construct(d) ==
  /\ Running \subseteq {"order_canceller"}
  /\ monitor' = "running"
  /\ delay' = d
  /\ queue' = [p \in PosIds |-> Null]
  /\ inRecovery' = {}
  /\ replaced' = replaced \cup KeepsRunning
  /\ pc' = [j \in Jobs |-> "idle"]
  /\ orphanIds' = {}

\* start_monitor(auto_reopen_delay_minutes).  dbOk: the session that resets
\* orders_disabled (and switches recovery on) commits; when it raises the
\* function returns False with manually_stopped already cleared.
start_monitor ==
  /\ \E d \in 1..MaxDelay, dbOk \in BOOLEAN :
       /\ Spend(B2N(~dbOk) + Outlasts(dbOk /\ monitor /= "running"))
       /\ IF ~dbOk
          THEN /\ logged' = Log("start_monitor", 0, FALSE)
               /\ UNCHANGED <<db, monitor, delay, queue, inRecovery, replaced, pc, orphanIds>>
          ELSE /\ db' = [p \in PosIds |-> [db[p] EXCEPT !.orders_disabled = FALSE]]
               /\ IF monitor = "running"
                  THEN /\ logged' = Log("start_monitor", 0, FALSE)
                       /\ UNCHANGED <<monitor, delay, queue, inRecovery, replaced, pc, orphanIds>>
                  ELSE /\ Construct(d)
                       /\ logged' = Log("start_monitor", 0, TRUE)
  /\ manually_stopped' = FALSE
  /\ started' = TRUE
  /\ UNCHANGED <<now, configured, steps, exch, orders, nextOrd, toReopen, toRemove, toRecover,
                 recPos, lastFired, calc, unrecorded>>

\* stop_monitor(): scheduler.shutdown(wait=False) lets the jobs in flight end.
stop_monitor ==
  /\ IF monitor = "running"
     THEN /\ monitor' = "stopped"
          /\ manually_stopped' = TRUE
          /\ started' = FALSE
          /\ replaced' = replaced
          /\ logged' = Log("stop_monitor", 0, TRUE)
     ELSE /\ logged' = Log("stop_monitor", 0, FALSE)
          /\ UNCHANGED lifeVars
  /\ UNCHANGED <<now, confVars, db, queue, inRecovery, exch, orders, nextOrd,
                 jobVars, lastFired, envLeft, calc, unrecorded>>

\* get_monitor(): PositionMonitor() loads the saved delay.  The outcome
\* recorded is whether the monitor it returns is a running one.
get_monitorAutoStart ==
  /\ Spend(Outlasts(monitor /= "running"))
  /\ IF monitor /= "running"
     THEN Construct(delay)
     ELSE UNCHANGED <<monitor, delay, queue, inRecovery, replaced, pc, orphanIds>>
  /\ logged' = Log("get_monitor", 0, monitor' = "running")
  /\ UNCHANGED <<now, configured, steps, manually_stopped, started, db, exch, orders, nextOrd,
                 toReopen, toRemove, toRecover, recPos, lastFired, calc, unrecorded>>
get_monitor ==
  /\ Spend(Outlasts(monitor /= "running" /\ ~manually_stopped))
  /\ IF monitor /= "running" /\ ~manually_stopped
     THEN Construct(delay)
     ELSE UNCHANGED <<monitor, delay, queue, inRecovery, replaced, pc, orphanIds>>
  /\ logged' = Log("get_monitor", 0, monitor' = "running")
  /\ UNCHANGED <<now, configured, steps, manually_stopped, started, db, exch, orders, nextOrd,
                 toReopen, toRemove, toRecover, recPos, lastFired, calc, unrecorded>>

\* ui/orders.py: the user ticks or clears "orders_disabled" on a listed order
\* of the pair of the open row p.  The table lists the orders the exchange
\* reports to a configured client.
SetOrdersDisabled(p, b) ==
  /\ configured
  /\ \E o \in orders : o.pair = PositionSide(db[p])
  /\ db[p].is_open
  /\ db[p].orders_disabled /= b
  /\ db' = [db EXCEPT ![p].orders_disabled = b]
  /\ logged' = Null
  /\ UNCHANGED <<now, confVars, lifeVars, calc, unrecorded, queue, inRecovery, exch, orders, nextOrd,
                 jobVars, lastFired, envLeft>>

\* The user saves the API credentials: the next _ensure_strategy builds a
\* configured client.
SaveCredentials ==
  /\ ~configured
  /\ configured' = TRUE
  /\ logged' = Null
  /\ UNCHANGED <<now, delay, steps, lifeVars, calc, unrecorded, db, queue, inRecovery, exch, orders,
                 nextOrd, jobVars, lastFired, envLeft>>

Next ==
  \/ Tick
  \/ \E pair \in Pairs : ExchangeClose(pair)
  \/ \E pair \in Pairs : ExchangeOpen(pair)
  \/ \E pair \in Pairs : PnlMove(pair)
  \/ check_positions
  \/ reopen_begin
  \/ reopen_order
  \/ reopen_finish
  \/ check_recovery
  \/ execute_recovery_start
  \/ execute_recovery_finish
  \/ cancel_orphaned_orders
  \/ cancel_orphaned_orders_cancel
  \/ check_and_restore_tp_sl_orders

Spec == Init /\ [][Next]_vars

\* The scheduler at work on the reopen queue: APScheduler triggers the
\* position check and the reopen job at their intervals for as long as the
\* scheduler runs, a reopen tick that has begun runs on to its end, and the
\* clock advances.  The other jobs run whenever they run.  MaxLiveEnv events
\* of the environment (a failing call, a close or an open by hand) happen at
\* most.
InitLive == InitWith(TRUE, "running", FALSE, MaxLiveEnv)
Fairness ==
  /\ WF_vars(Tick)
  /\ WF_vars(check_positions)
  /\ WF_vars(reopen_begin)
  /\ WF_vars(reopen_order)
  /\ WF_vars(reopen_finish)
SpecLive == InitLive /\ [][Next]_vars /\ Fairness

\* The process from boot: no monitor, manually_stopped set, no credentials
\* saved yet.
InitBoot == InitWith(FALSE, "none", TRUE, MaxOpsEnv)

NextOps ==
  \/ Next
  \/ start_monitor
  \/ stop_monitor
  \/ get_monitor
  \/ cancel_orphaned_orders_cancelReplaced
  \/ \E p \in PosIds, b \in BOOLEAN : SetOrdersDisabled(p, b)
  \/ SaveCredentials

SpecOps == InitBoot /\ [][NextOps]_vars

\* The settings page saves the recovery ladder (ui/settings.py 320-345): the
\* steps 1..num_steps are written and the keys of every later step deleted,
\* so the table always holds a ladder without gaps, of one step at least.
\* The ladders saved here: the initial one, the same with the parameters of
\* step 1 changed, and the same with step 2 removed.
Ladders == {steps0, <<steps0[2], steps0[2]>>, <<steps0[1]>>}
SaveRecoverySettings ==
  /\ \E ladder \in Ladders \ {steps} : steps' = ladder
  /\ logged' = Null
  /\ UNCHANGED <<now, configured, delay, lifeVars, calc, unrecorded, db, queue, inRecovery,
                 exch, orders, nextOrd, jobVars, lastFired, envLeft>>

\* The scheduler at work while the user edits the recovery ladder.
InitSettings == InitWith(TRUE, "running", FALSE, MaxSettingsEnv)
NextSettings ==
  \/ Next
  \/ SaveRecoverySettings
SpecSettings == InitSettings /\ [][NextSettings]_vars

\* The calculator on its own.  A call of one of the two static functions of
\* TradingCalculator with arguments of the kinds its callers pass: whole
\* USDT amounts and prices, a contract value in whole coins, quantities and
\* lot sizes in hundredths of a contract.  The lot sizes are the powers of ten
\* the instruments endpoint reports: lotSz 0.01 is 1, 0.1 is 10, 1 is 100.
LotSizes == {10 ^ k : k \in 0..CalcMaxLotExp}
QuantityCalls ==
  [fn : {"calculate_quantity_for_usdt"}, amount_usdt : 1..CalcMaxUsdt,
   leverage : 1..CalcMaxLeverage, current_price : 1..CalcMaxPrice,
   contract_value : 1..CalcMaxContractValue, lot_size : LotSizes,
   result : {Null}]
TpSlCalls ==
  [fn : {"calculate_tp_sl_prices"}, entry_price : 1..CalcMaxPrice,
   side : {"LONG", "SHORT"}, tp_usdt : 1..CalcMaxUsdt, sl_usdt : 1..CalcMaxUsdt,
   quantity : 1..CalcMaxQuantity, contract_value : 1..CalcMaxContractValue,
   result : {Null}]

InitCalc ==
  /\ Constructed(FALSE, "none", TRUE, 0)
  /\ calc \in QuantityCalls \cup TpSlCalls

\* The call returns what the function computes from its arguments.
quantity_call ==
  /\ calc /= Null
  /\ calc.fn = "calculate_quantity_for_usdt"
  /\ calc.result = Null
  /\ calc' = [calc EXCEPT !.result =
                <<calculate_quantity_for_usdt(calc.amount_usdt, calc.leverage,
                                              calc.current_price, calc.contract_value,
                                              calc.lot_size)>>]
  /\ UNCHANGED <<now, confVars, lifeVars, db, queue, inRecovery, exch, orders,
                 nextOrd, jobVars, lastFired, logged, envLeft, unrecorded>>

tp_sl_call ==
  /\ calc /= Null
  /\ calc.fn = "calculate_tp_sl_prices"
  /\ calc.result = Null
  /\ calc' = [calc EXCEPT !.result =
                <<calculate_tp_sl_prices(calc.entry_price, calc.side, calc.tp_usdt,
                                         calc.sl_usdt, calc.quantity,
                                         calc.contract_value)>>]
  /\ UNCHANGED <<now, confVars, lifeVars, db, queue, inRecovery, exch, orders,
                 nextOrd, jobVars, lastFired, logged, envLeft, unrecorded>>

NextCalc ==
  \/ quantity_call
  \/ tp_sl_call

SpecCalc == InitCalc /\ [][NextCalc]_vars

\* ------------------------------------------------------------- properties
Reopener == "position_reopener"
Recoverer == "recovery_checker"
Canceller == "order_canceller"

\* The step in which reopen_closed_positions submits its market order and the
\* exchange accepts it.
ReopenOrderStep == pc[Reopener] = "order" /\ pc'[Reopener] = "readback"
\* The step in which execute_recovery submits the addition and the exchange
\* accepts it: the recovery step fires.
RecoveryFireStep == pc[Recoverer] = "start" /\ pc'[Recoverer] = "finish"
\* A step of reopen_closed_positions' pass over the queue that took up or
\* dequeued something.
ReopenDecisionStep ==
  /\ pc[Reopener] = "idle"
  /\ \/ pc'[Reopener] = "order"
     \/ \E p \in PosIds : queue[p] /= Null /\ queue'[p] = Null
TakenUp(p) ==
  \/ \E i \in DOMAIN toReopen' : toReopen'[i].id = p
  \/ p \in toRemove'
  \/ queue'[p] = Null

\* C1: a queued id with recorded closure time T is never being reopened (no
\* market order is submitted for it) while the current time is before
\* T + delay minutes, and a pass of the reopen job at or after T + delay takes
\* it up (reopens it or dequeues it as already open), while a pass before
\* T + delay leaves it queued and untouched.
C1_ReopenNotBeforeDelay ==
  /\ [](\A i \in DOMAIN toReopen :
          /\ queue[toReopen[i].id] /= Null
          /\ now >= Val(queue[toReopen[i].id]) + delay * TicksPerMinute)
  /\ [][ReopenDecisionStep =>
          \A p \in PosIds :
            queue[p] /= Null =>
              ((now >= Val(queue[p]) + delay * TicksPerMinute) <=> TakenUp(p))]_vars
C1_Witness ==
  /\ pc[Reopener] = "readback"
  /\ \E p \in PosIds : queue[p] /= Null /\ now = Val(queue[p]) + delay * TicksPerMinute

\* C3 (as stated): whenever the reopen job submits a market order for a pair,
\* the exchange position of that pair is zero at that moment.
C3_NoOrderOnOpenPosition ==
  [][ReopenOrderStep =>
       exch[PositionSide(db[Head(toReopen).id])].amt = 0]_vars

\* C5: a recovery step never fires for a row whose recovery_count has reached
\* the number of configured steps, and the count never exceeds that number.
C5_ExhaustedNeverFires ==
  /\ [](\A p \in PosIds : db[p].recovery_count <= Len(steps))
  /\ [][RecoveryFireStep =>
          db[Head(toRecover).pos_id].recovery_count < Len(steps)]_vars
C5_Witness ==
  \E p \in PosIds :
    /\ db[p].is_open
    /\ db[p].recovery_count = Len(steps)
    /\ exch[PositionSide(db[p])].amt > 0
    /\ exch[PositionSide(db[p])].upl <= steps[Len(steps)].trigger_pnl
    /\ pc[Recoverer] = "idle"
    /\ logged = Null

\* C10 (as stated): check_positions enqueues a row only when the exchange
\* position of its pair is zero.
C10_EnqueueOnlyWhenFlat ==
  [][\A p \in PosIds :
       (queue[p] = Null /\ queue'[p] /= Null) =>
         exch[PositionSide(db[p])].amt = 0]_vars

\* The step in which cancel_orphaned_orders lists and cancels.
OrphanCancelStep == pc[Canceller] = "list" /\ pc'[Canceller] = "idle"
\* Order id n is the current tp_order_id or sl_order_id of an open row.
TrackedNow(n) ==
  \E p \in PosIds :
    db[p].is_open /\ (db[p].tp_order_id = Some(n) \/ db[p].sl_order_id = Some(n))

\* C2 (as stated): cancel_orphaned_orders never takes off the book an order
\* whose id is, at that moment, the tp_order_id or sl_order_id of an open row.
C2_TrackedOrderNeverCancelled ==
  [][OrphanCancelStep => \A o \in orders \ orders' : ~TrackedNow(o.id)]_vars

\* C4 (as stated): with no change of the exchange position between them other
\* than the additions of the recovery steps themselves, two runs of
\* check_recovery do not both increment a row's recovery_count.
C4_NoSecondIncrement ==
  lastFired /= Null => Val(lastFired).streak <= 1

\* C6: a recovery step that ends in failure leaves every field of the stored
\* row as it was, recovery_count included, so the next tick evaluates the same
\* step index.
C6_FailedRecoveryChangesNothing ==
  [][\A p \in PosIds :
       logged' = Log("recovery", p, FALSE) => db'[p] = db[p]]_vars
C6_Witness ==
  \E p \in PosIds :
    /\ logged = Log("recovery", p, FALSE)
    /\ exch[PositionSide(db[p])].amt > db[p].quantity

\* C7 (as stated): a recovery step fires only for the step after the row's
\* stored recovery_count, with the PnL read by its tick at or below that
\* step's trigger, and a step that succeeds raises the stored recovery_count
\* by exactly one.
C7_StepsFireInOrder ==
  [][/\ RecoveryFireStep =>
          LET pd == Head(toRecover)
          IN  /\ pd.step_num = db[pd.pos_id].recovery_count + 1
              /\ pd.unrealized_pnl <= steps[pd.step_num].trigger_pnl
      /\ \A p \in PosIds :
           logged' = Log("recovery", p, TRUE) =>
             db'[p].recovery_count = db[p].recovery_count + 1]_vars

\* C8: a reopen attempt that ends in failure leaves the id in the queue (and
\* out of the ids to dequeue at the end of the pass) and leaves every field
\* of the stored row as it was.
C8_FailedReopenStaysQueued ==
  [][\A p \in PosIds :
       logged' = Log("reopen", p, FALSE) =>
         /\ db'[p] = db[p]
         /\ queue'[p] /= Null
         /\ queue'[p] = queue[p]
         /\ p \notin toRemove']_vars
C8_Witness ==
  \E p \in PosIds :
    /\ logged = Log("reopen", p, FALSE)
    /\ queue[p] /= Null
    /\ exch[PositionSide(db[p])].amt > 0

\* C9 (as stated): the step that ends a reopen attempt in success leaves the
\* row open, with recovery_count 0, last_recovery_at, closed_at, pnl and
\* close_reason null, the targets at their original values, entry price,
\* quantity and position id as the exchange reports them, the order ids those
\* of the orders just placed, and the id dequeued.
C9_ReopenedRowIsFresh ==
  [][\A p \in PosIds :
       logged' = Log("reopen", p, TRUE) =>
         LET row == db'[p]
             e == exch[PositionSide(db[p])]
             fresh == {o.id : o \in orders' \ orders}
         IN  /\ row.is_open
             /\ row.recovery_count = 0
             /\ row.last_recovery_at = Null
             /\ row.closed_at = Null
             /\ row.pnl = Null
             /\ row.close_reason = Null
             /\ row.tp_usdt = OriginalTpUsdt
             /\ row.sl_usdt = OriginalSlUsdt
             /\ row.entry_price = e.entry
             /\ row.quantity = e.amt
             /\ row.position_id = Some(PositionSide(db[p]))
             /\ Range(row.tp_order_id) \cup Range(row.sl_order_id) = fresh
             /\ (queue'[p] = Null \/ p \in toRemove')]_vars

\* The row of p after a target-reached close with the given reason.
ClosedWith(p, reason) ==
  /\ db'[p].is_open = FALSE
  /\ db'[p].closed_at = Some(now)
  /\ db'[p].pnl = Some(exch[PositionSide(db[p])].upl)
  /\ db'[p].close_reason = Some(reason)
\* The restore job visits row p and finds a position on the exchange.
RestoreVisits(p) ==
  db[p].is_open /\ ~db[p].orders_disabled /\ exch[PositionSide(db[p])].amt > 0
\* No row that shares the pair of p is visited before p in the same tick, so
\* the visit of p finds the exchange and the book as the tick found them.
FirstOfPair(p) ==
  \A q \in PosIds :
    q < p => ~(RestoreVisits(q) /\ PositionSide(db[q]) = PositionSide(db[p]))

\* C11: in a tick of the restore job whose calls succeed, a visited row (the
\* first of its pair) whose
\* TP order is missing and whose PnL has reached the TP target gets a market
\* close and is marked closed with reason TP, and no TP order is placed for
\* it; a missing SL order with the PnL at or below minus the SL target closes
\* it with reason SL.
C11_TargetReachedCloses ==
  [][\A p \in PosIds :
       LET pair == PositionSide(db[p])
           e == exch[pair]
           tpDue == ~HasTp(orders, pair, db[p].side, e.entry) /\ e.upl >= OriginalTpUsdt
           slDue == ~HasSl(orders, pair, db[p].side, e.entry) /\ e.upl <= 0 - OriginalSlUsdt
       IN  (/\ RestoreVisits(p) /\ FirstOfPair(p) /\ (tpDue \/ slDue)
            /\ configured /\ envLeft' = envLeft /\ pc' = pc /\ now' = now
            /\ check_and_restore_tp_sl_orders) =>
             /\ logged' \in {Log("close", q, TRUE) : q \in PosIds}
             /\ tpDue => /\ ClosedWith(p, "TP")
                         /\ ~HasTp(orders' \ orders, pair, db[p].side, e.entry)
             /\ slDue => ClosedWith(p, "SL")]_vars
C11_Witness ==
  \E p \in PosIds :
    /\ logged = Log("close", p, TRUE)
    /\ ~db[p].is_open
    /\ db[p].close_reason = Some("TP")
    /\ exch[PositionSide(db[p])].amt = 0

\* A tick of the restore job: the whole of check_and_restore_tp_sl_orders on
\* a configured client.
RestoreTick ==
  /\ configured /\ pc' = pc /\ now' = now
  /\ check_and_restore_tp_sl_orders

\* The orders the step adds to the book for the pair.
PlacedFor(pair) == {o \in orders' \ orders : o.pair = pair}

\* C12: the restore job places only what is missing: when it visits a row
\* (open, orders enabled, nonzero position on the exchange) whose pair has a
\* live take-profit order, it places no further take-profit order for the
\* pair, and likewise for the stop-loss order.
C12_RestorePlacesOnlyMissing ==
  [][\A p \in PosIds :
       LET pair == PositionSide(db[p])
           e == exch[pair]
       IN  (RestoreVisits(p) /\ RestoreTick) =>
             /\ HasTp(orders, pair, db[p].side, e.entry) =>
                  ~HasTp(PlacedFor(pair), pair, db[p].side, e.entry)
             /\ HasSl(orders, pair, db[p].side, e.entry) =>
                  ~HasSl(PlacedFor(pair), pair, db[p].side, e.entry)]_vars

\* C13: the orphan-cancellation job cancels only orders of a pair that has no
\* position on the exchange: every order that leaves the book in its
\* cancelling step belongs to a pair whose exchange position is zero.
C13_CancelsOnlyOrphans ==
  [][OrphanCancelStep => \A o \in orders \ orders' : exch[o.pair].amt = 0]_vars

\* Every open row on the pair of p has its orders_disabled flag set.
PairDisabled(p) ==
  \A q \in PosIds :
    (db[q].is_open /\ PositionSide(db[q]) = PositionSide(db[p])) => db[q].orders_disabled

\* C14: while the orders_disabled flag of a row is set, a tick of the restore
\* job leaves the row as it is; it places no order for the pair of the row
\* and does not close its position on the exchange, unless for another row
\* of the same pair whose flag is not set.
C14_DisabledRowUntouched ==
  [][\A p \in PosIds :
       LET pair == PositionSide(db[p])
       IN  (db[p].orders_disabled /\ RestoreTick) =>
             /\ db'[p] = db[p]
             /\ PairDisabled(p) => PlacedFor(pair) = {} /\ exch'[pair] = exch[pair]]_vars

\* The restore job is about to visit a flagged open row whose position has
\* reached the take-profit target with no take-profit order live.
C14_Witness ==
  \E p \in PosIds :
    LET pair == PositionSide(db[p])
    IN  /\ db[p].orders_disabled /\ db[p].is_open
        /\ exch[pair].amt > 0 /\ exch[pair].upl >= OriginalTpUsdt
        /\ ~HasTp(orders, pair, db[p].side, exch[pair].entry)
        /\ configured /\ CanStart("tp_sl_restorer")

\* The scheduler goes from not running to running.
SchedulerStarts == monitor /= "running" /\ monitor' = "running"

\* C15: an orders_disabled override ends with the next start of the
\* scheduler: whenever the scheduler starts, no row has the flag set.
C15_StartResetsOverride ==
  [][SchedulerStarts => \A p \in PosIds : ~db'[p].orders_disabled]_vars

\* A tick of one of the five jobs begins.
JobTick ==
  \/ check_positions
  \/ reopen_begin
  \/ check_recovery
  \/ cancel_orphaned_orders
  \/ check_and_restore_tp_sl_orders

\* C16: while the client is not configured, a tick of any of the five jobs
\* ends at once and changes no row, no entry of the reopen queue, no member
\* of the in-recovery set and nothing on the exchange.
C16_UnconfiguredJobsDoNothing ==
  [][(~configured /\ now' = now /\ monitor' = monitor /\ JobTick) =>
       UNCHANGED <<db, queue, inRecovery, exch, orders, nextOrd, pc>>]_vars

\* The scheduler runs jobs on an unconfigured client while an open row is
\* flat on the exchange and not queued: what a configured position check
\* would enqueue.
C16_Witness ==
  /\ ~configured /\ monitor = "running"
  /\ \E p \in PosIds :
       /\ db[p].is_open /\ queue[p] = Null
       /\ exch[PositionSide(db[p])].amt = 0
  /\ \A j \in Jobs : CanStart(j)

\* Job j is inside a tick at a place from which the tick goes on: the loops
\* of the reopen and the recovery job have an entry at hand, the canceller
\* is about to list the orders.
InTick(j) ==
  CASE j = "position_reopener" ->
         /\ pc[j] \in {"order", "readback"}
         /\ toReopen /= <<>>
         /\ pc[j] = "readback" => Head(toReopen).pos /= Null
    [] j = "recovery_checker" ->
         /\ pc[j] \in {"start", "finish"}
         /\ toRecover /= <<>>
         /\ pc[j] = "finish" => recPos /= Null
    [] j = "order_canceller" -> pc[j] = "list"
    [] OTHER -> FALSE

C18_StartStopIdempotent ==
  [][/\ (monitor = "running" /\ envLeft' = envLeft /\ start_monitor) =>
          /\ logged' = Log("start_monitor", 0, TRUE)
          /\ UNCHANGED <<db, lifeVars, queue, inRecovery>>
     /\ (monitor /= "running" /\ stop_monitor) =>
          /\ logged' = Log("stop_monitor", 0, TRUE)
          /\ UNCHANGED <<db, lifeVars, queue, inRecovery>>]_vars

\* C19: the scheduler runs only as the result of an explicit start: whenever
\* it goes from not running to running, start_monitor has been called since
\* the process booted and since the last stop_monitor that returned success.
C19_RunsOnlyAfterStart ==
  [][SchedulerStarts => started']_vars

\* get_monitor was called after a successful stop and returned a monitor that
\* is not running.
C19_Witness ==
  /\ logged = Log("get_monitor", 0, FALSE)
  /\ monitor = "stopped" /\ ~started

\* The restore job has closed row p at a target.
ClosedByRestore(p) ==
  ~db[p].is_open /\ db[p].close_reason \in {Some("TP"), Some("SL")}

\* C20: while the scheduler runs and the calls to the exchange succeed, a row
\* the restore job closed at its target is eventually placed in the reopen
\* queue (from where it is reopened after the cooldown).  envLeft = 0: no
\* call fails from here on.
C20_ClosureLeadsToReopen ==
  \A p \in PosIds :
    (ClosedByRestore(p) /\ envLeft = 0) ~> (queue[p] /= Null \/ db[p].is_open)

\* The live market price the unrealized PnL of an exchange position stands
\* for: the inverse of the PnL formula of calculate_tp_sl_prices,
\* entry + upl / (quantity * contract_value) for LONG, mirrored for SHORT, as
\* the exact fraction n / d (quantity in hundredths of a contract).
MarkPrice(e, side) ==
  LET d == e.amt * ContractValue
  IN  IF side = "LONG"
      THEN [n |-> e.entry * d + 100 * e.upl, d |-> d]
      ELSE [n |-> e.entry * d - 100 * e.upl, d |-> d]

\* The trigger trig lies on the profit side (the loss side) of the price m.
ProfitSide(trig, m, side) ==
  IF side = "LONG" THEN trig * m.d > m.n ELSE trig * m.d < m.n
LossSide(trig, m, side) ==
  IF side = "LONG" THEN trig * m.d < m.n ELSE trig * m.d > m.n

\* C21: no protective order is submitted on the wrong side of the live market
\* price: an order a step places and records as the take-profit order of a
\* row has its trigger on the profit side of the market price at that
\* moment, one recorded as the stop-loss order on the loss side.
C21_TriggersOnRightSide ==
  [][\A p \in PosIds :
       \A o \in orders' \ orders :
         LET pair == PositionSide(db[p])
             m == MarkPrice(exch[pair], db[p].side)
         IN  (o.pair = pair /\ exch[pair].amt > 0) =>
               /\ db'[p].tp_order_id = Some(o.id) => ProfitSide(o.trig, m, db[p].side)
               /\ db'[p].sl_order_id = Some(o.id) => LossSide(o.trig, m, db[p].side)]_vars

\* The ids of the orders a step adds to the book.
PlacedIds == {o.id : o \in orders' \ orders}

RecoveryStep ==
  /\ pc[Recoverer] \in {"start", "finish"}
  /\ pc'[Recoverer] /= pc[Recoverer] \/ toRecover' /= toRecover

\* The columns a recovery step may not change.
RecoveryKeeps ==
  {"amount_usdt", "original_tp_usdt", "original_sl_usdt", "side", "is_open",
   "orders_disabled", "closed_at", "pnl", "close_reason"}

\* C23: a recovery step, done or failed, leaves amount_usdt and the baseline
\* original_tp_usdt / original_sl_usdt of every row as they were, and changes
\* no column other than entry_price, quantity, position_id, tp_usdt, sl_usdt,
\* the two order ids, recovery_count and last_recovery_at.
C23_RecoveryKeepsBaseline ==
  [][RecoveryStep => \A p \in PosIds : \A f \in RecoveryKeeps : db'[p][f] = db[p][f]]_vars

\* A recovery step of p is done: the row has the step's targets and the
\* doubled quantity, and still the amount and the baseline it was opened with.
C23_Witness ==
  \E p \in PosIds :
    /\ logged = Log("recovery", p, TRUE)
    /\ db[p].recovery_count = 1
    /\ db[p].tp_usdt /= db[p].original_tp_usdt
    /\ db[p].quantity > 100
    /\ db[p].amount_usdt = AmountUsdt

\* The argument and the result of a returned call, and what one lot and the
\* computed quantity are worth, in hundredths of a USDT.
QuantityReturned ==
  calc /= Null /\ calc.fn = "calculate_quantity_for_usdt" /\ calc.result /= Null
LotValue(c) == c.lot_size * c.contract_value * c.current_price
QuantityValue(c) == Val(c.result) * c.contract_value * c.current_price
Abs(x) == IF x < 0 THEN -x ELSE x

\* C24: the quantity calculate_quantity_for_usdt returns is a non-negative
\* multiple of the lot size, is at least one lot, and is worth the amount
\* asked for to within the value of one lot.
C24_QuantityIsWholeLots ==
  QuantityReturned =>
    /\ Val(calc.result) >= 0
    /\ Val(calc.result) % calc.lot_size = 0
    /\ Val(calc.result) >= calc.lot_size
    /\ Abs(QuantityValue(calc) - 100 * calc.amount_usdt) <= LotValue(calc)

\* A returned call of calculate_tp_sl_prices, and the profit in hundredths of
\* a USDT, times the price's denominator, that a position of the call's side,
\* quantity and contract value makes when the market goes from the entry
\* price to price.
TpSlReturned ==
  calc /= Null /\ calc.fn = "calculate_tp_sl_prices" /\ calc.result /= Null
ProfitAt(c, price) ==
  LET diff == price.n - c.entry_price * price.d
  IN  (IF c.side = "LONG" THEN diff ELSE -diff) * c.quantity * c.contract_value

\* C25: the prices calculate_tp_sl_prices returns round-trip.  A position of
\* the given quantity and contract value makes exactly tp_usdt between the
\* entry price and the TP price and loses exactly sl_usdt between the entry
\* price and the SL price, so TP is on the profit side of the entry price
\* and SL on the loss side.
C25_PricesRoundTrip ==
  TpSlReturned =>
    LET tp == Val(calc.result).tp
        sl == Val(calc.result).sl
    IN  /\ tp.d > 0 /\ sl.d > 0
        /\ ProfitAt(calc, tp) = 100 * calc.tp_usdt * tp.d
        /\ ProfitAt(calc, sl) = -(100 * calc.sl_usdt * sl.d)
        /\ ProfitAt(calc, tp) > 0
        /\ ProfitAt(calc, sl) < 0

\* A call for a SHORT position of a fraction of a contract worth two coins
\* has returned, with a TP price that is not a whole number.
C25_Witness ==
  /\ TpSlReturned
  /\ calc.side = "SHORT"
  /\ calc.contract_value > 1
  /\ calc.quantity < 100
  /\ Val(calc.result).tp.n % Val(calc.result).tp.d /= 0

\* The orders of the book that a job of the scheduler placed: the first
\* 2 * NumPos ids are the orders open_position placed with the rows.
SchedulerPlaced == {o \in orders : o.id > 2 * NumPos}

\* The live orders of a pair that the jobs placed, on the take-profit side
\* and on the stop-loss side of the entry price of the exchange position.
LiveTp(pair, side) ==
  {o \in SchedulerPlaced : HasTp({o}, pair, side, exch[pair].entry)}
LiveSl(pair, side) ==
  {o \in SchedulerPlaced : HasSl({o}, pair, side, exch[pair].entry)}

\* C26: whatever the order in which the restore, recovery and reopen jobs
\* run, an exchange position has at most one live take-profit order and at
\* most one live stop-loss order placed by the jobs.
C26_OneTpOneSl ==
  \A p \in PosIds :
    LET pair == PositionSide(db[p])
    IN  exch[pair].amt > 0 =>
          /\ Cardinality(LiveTp(pair, db[p].side)) <= 1
          /\ Cardinality(LiveSl(pair, db[p].side)) <= 1

\* C27: an id for which the reopen job has had a market order filled does not
\* leave the reopen queue while the row still describes the previous
\* position: it stays queued until a commit has updated the row for the new
\* exchange position.
C27_DequeuedOnlyWhenRecorded ==
  [][\A p \in PosIds :
       (p \in unrecorded /\ queue[p] /= Null /\ queue'[p] = Null) =>
         /\ p \notin unrecorded'
         /\ db'[p].recovery_count = 0
         /\ db'[p].tp_usdt = db'[p].original_tp_usdt
         /\ db'[p].sl_usdt = db'[p].original_sl_usdt
         /\ db'[p].entry_price = exch'[PositionSide(db'[p])].entry
         /\ db'[p].quantity = exch'[PositionSide(db'[p])].amt]_vars

\* C28: the restore job marks a row closed only if the exchange accepted the
\* market close order it submitted: a tick of the job whose close order for a
\* row was refused leaves that row open and as it was.
C28_ClosedOnlyWhenAccepted ==
  [][\A p \in PosIds :
       (RestoreTick /\ logged' = Log("close", p, FALSE)) =>
         /\ db'[p].is_open = db[p].is_open
         /\ db'[p] = db[p]]_vars

\* C29: a tick of the restore job that closes a row because its TP target is
\* reached places no protective order for the position of that row and
\* records no new order id on the closed row.
C29_NoOrderAfterTpClose ==
  [][\A p \in PosIds :
       (RestoreTick /\ db[p].is_open /\ ~db'[p].is_open
          /\ db'[p].close_reason = Some("TP")) =>
         /\ PlacedFor(PositionSide(db[p])) = {}
         /\ db'[p].tp_order_id = db[p].tp_order_id
         /\ db'[p].sl_order_id = db[p].sl_order_id]_vars

\* The position listing of the tick that ends has failed.
PositionListingFailed == logged' = Log("get_all_positions", 0, FALSE)

\* C30: a tick of cancel_orphaned_orders whose exchange-wide position listing
\* fails cancels no order: the failed listing is not taken for "no open
\* positions".
C30_FailedListingCancelsNothing ==
  [][(OrphanCancelStep /\ PositionListingFailed) => orders' = orders]_vars

\* The order listing of the restore job's visit of row p has failed, and the
\* visit has closed nothing.
OrderListingFailed(p) == logged' = Log("get_algo_orders", p, FALSE)

\* C31: a tick of the restore job in which the listing of the live orders of
\* the position of row p fails places no protective order for that position
\* and leaves the row open: the failed listing is not taken for "TP and SL
\* are missing".
C31_FailedListingRestoresNothing ==
  [][\A p \in PosIds :
       (RestoreTick /\ OrderListingFailed(p)) =>
         /\ PlacedFor(PositionSide(db[p])) = {}
         /\ db'[p] = db[p]]_vars

\* C32: the scheduler opens on the exchange only positions marked active:
\* the reopen job submits its market order for a queued id only while the
\* row's is_open flag is true.
C32_OnlyActiveRowsReopened ==
  [][ReopenOrderStep => db[Head(toReopen).id].is_open]_vars

\* A step of the reopen job past the reading of its queue.
ReopenStep ==
  /\ pc[Reopener] \in {"order", "readback"}
  /\ pc'[Reopener] /= pc[Reopener] \/ toReopen' /= toReopen

\* The live orders of a pair.
OrdersOf(book, pair) == {o \in book : o.pair = pair}

\* C33: while the orders_disabled flag of a row is set (and of every open row
\* that shares its pair), no step of the restore, recovery or reopen job
\* places, cancels or replaces an order of that position: the orders of the
\* pair are after the step what they were before.
C33_DisabledRowNotManaged ==
  [][\A p \in PosIds :
       LET pair == PositionSide(db[p])
       IN  (db[p].orders_disabled /\ PairDisabled(p)
              /\ (RecoveryStep \/ ReopenStep \/ RestoreTick)) =>
             OrdersOf(orders', pair) = OrdersOf(orders, pair)]_vars

\* A tick of check_positions on a configured client.
CheckTick ==
  /\ configured /\ pc' = pc /\ now' = now
  /\ check_positions

\* C34: a tick of check_positions changes no column of any row, in
\* particular not is_open, and nothing on the exchange; all it does is add
\* ids to the reopen queue, each with the current time.
C34_CheckOnlyEnqueues ==
  [][CheckTick =>
       /\ db' = db
       /\ UNCHANGED <<exch, orders, nextOrd, inRecovery>>
       /\ \A p \in PosIds :
            queue'[p] /= queue[p] => (queue[p] = Null /\ queue'[p] = Some(now))]_vars

\* A tick has just queued an open row whose position is gone from the
\* exchange; the row is still marked open.
C34_Witness ==
  \E p \in PosIds :
    /\ queue[p] = Some(now)
    /\ db[p].is_open
    /\ exch[PositionSide(db[p])].amt = 0
    /\ pc["position_checker"] = "idle"
    /\ now > 0

\* C35: a tick of check_positions leaves the closure time of a queued id as
\* it is, and does not ask the exchange about a queued id: with every open
\* row queued no gateway call of the tick can fail.
C35_QueuedIdNotRechecked ==
  [][CheckTick =>
       /\ \A p \in PosIds : queue[p] /= Null => queue'[p] = queue[p]
       /\ (\A p \in PosIds : db[p].is_open => queue[p] /= Null) =>
            envLeft' = envLeft]_vars

\* An id queued at an earlier time is still queued with that time while its
\* row is open, its position is gone, and the position check can run again.
C35_Witness ==
  \E p \in PosIds :
    /\ queue[p] /= Null
    /\ Val(queue[p]) < now
    /\ db[p].is_open
    /\ exch[PositionSide(db[p])].amt = 0
    /\ CanStart("position_checker")
    /\ envLeft > 0

\* A step in which the reopen job deletes from its queue: the pass that finds
\* nothing to reopen, or the end of a pass.
ReopenDeletes ==
  \/ pc[Reopener] /= "idle" /\ pc'[Reopener] = "idle"
  \/ pc' = pc /\ now' = now /\ reopen_begin

\* C36: the reopen queue has one writer and one remover.  An id enters the
\* queue only in a tick of check_positions and leaves it only in a step of
\* the reopen job, and the reopen job submits a market order only for an id
\* that is in the queue, so that a closure-detection tick that queued it has
\* come first, however the two jobs interleave.
C36_OneWriterOneRemover ==
  [][/\ \A p \in PosIds :
          /\ (queue[p] = Null /\ queue'[p] /= Null) => CheckTick
          /\ (queue[p] /= Null /\ queue'[p] = Null) => ReopenDeletes
          /\ (queue[p] /= Null /\ queue'[p] /= Null) => queue'[p] = queue[p]
     /\ ReopenOrderStep => queue[Head(toReopen).id] /= Null]_vars

\* The reopen job has had its market order filled for an id that
\* check_positions queued at an earlier time.
C36_Witness ==
  /\ pc[Reopener] = "readback"
  /\ queue[Head(toReopen).id] /= Null
  /\ Val(queue[Head(toReopen).id]) < now
  /\ exch[PositionSide(db[Head(toReopen).id])].amt > 0

\* C37: an id is in the in-recovery set exactly while execute_recovery runs
\* for it: the set holds the id of the step under way and nothing else, and
\* is empty whenever no step is under way, in particular whenever no
\* check_recovery tick is executing.
C37_GuardHeldOnlyDuringStep ==
  inRecovery = IF pc[Recoverer] = "finish" THEN {Head(toRecover).pos_id} ELSE {}

\* A recovery step has ended, by success or by failure, and the job is idle
\* again.
C37_Witness ==
  /\ pc[Recoverer] = "idle"
  /\ logged /= Null
  /\ Val(logged).job = "recovery"

\* Where a job that is part-way through a tick has a store session open: the
\* reopen job is inside the `with get_db_session()` block of line 463 for
\* the whole of its loop over positions_to_reopen, the recovery job is
\* between SessionLocal() and db.close() of execute_recovery while the step
\* waits to read the position back.  The orphan canceller has left its
\* session before it lists the orders.
HoldsSession(j) ==
  CASE j = Reopener -> pc[j] \in {"order", "readback"}
    [] j = Recoverer -> pc[j] = "finish"
    [] OTHER -> FALSE

\* Job j takes a step.
JobMoves(j) ==
  \/ pc'[j] /= pc[j]
  \/ j = Reopener /\ toReopen' /= toReopen
  \/ j = Recoverer /\ toRecover' /= toRecover

\* The step has made a call of the exchange gateway: an order is filled,
\* placed or cancelled, or a call has failed.
GatewayEffect == exch' /= exch \/ orders' /= orders \/ envLeft' < envLeft

\* C38: no job makes a call of the exchange gateway while it holds a store
\* session open.
C38_NoSessionAcrossGatewayCall ==
  [][\A j \in Jobs : (HoldsSession(j) /\ JobMoves(j)) => ~GatewayEffect]_vars

\* A tick of check_recovery collects rows for recovery.
RecoverySelects == pc[Recoverer] = "idle" /\ pc'[Recoverer] = "start"

\* The parameters an entry of positions_to_recover carries.
StepOf(pd) ==
  [trigger_pnl |-> pd.trigger_pnl, add_amount |-> pd.add_amount,
   tp_usdt |-> pd.tp_usdt, sl_usdt |-> pd.sl_usdt]

\* C39: the recovery ladder is read from the settings on every tick.  A row
\* collected by a tick with recovery_count = k is collected for step k + 1,
\* with the trigger, add amount and TP/SL the settings hold for that step at
\* the tick, and with the PnL at or below that trigger; saving the ladder
\* changes no row and no step under way, so a step already consumed is not
\* fired again and the step fired next is still the one after
\* recovery_count.
C39_StepsReadFresh ==
  [][/\ RecoverySelects =>
          \A i \in DOMAIN toRecover' :
            LET pd == toRecover'[i]
                k == db[pd.pos_id].recovery_count
            IN  /\ k < Len(steps)
                /\ pd.step_num = k + 1
                /\ StepOf(pd) = steps[k + 1]
                /\ pd.unrealized_pnl <= steps[k + 1].trigger_pnl
     /\ steps' /= steps => UNCHANGED <<db, toRecover, recPos, pc, exch, orders>>]_vars

\* With step 1 consumed and its parameters changed since, a tick has
\* collected the row for step 2.
C39_Witness ==
  /\ pc[Recoverer] = "start"
  /\ toRecover /= <<>>
  /\ Head(toRecover).step_num = 2
  /\ Len(steps) = 2
  /\ steps[1] /= steps0[1]

\* The runs of job j executing, on the thread pool of the monitor and on
\* those of the monitors it replaced.
Instances(j) ==
  B2N(pc[j] /= "idle") + (IF j = "order_canceller" THEN Cardinality(replaced) ELSE 0)

\* C40: at most one instance of each of the five jobs executes at any time.
C40_OneInstancePerJob == \A j \in Jobs : Instances(j) <= 1
====
